---- MODULE Spec2Model ----
(***************************************************************************)
(* Delayed Mirror: the offline-cache service worker (src/sw.js).           *)
(*                                                                         *)
(* The model follows the worker through its lifecycle (install, waiting,   *)
(* activate, active), the fetch handler's promise chain step by step, and  *)
(* the message handler.  The browser's CacheStorage is a sequence of named *)
(* caches in creation order; every promise callback of sw.js is one        *)
(* action, so that callbacks of different events interleave as they do in  *)
(* the browser's event loop.                                               *)
(***************************************************************************)
EXTENDS Integers, Sequences, FiniteSets, TLC

\* ------------------------------------------------------------------ bounds
\* number of fetch events dispatched to the worker
MaxRequests == 2
\* number of message events dispatched to the worker
MaxMessages == 1

\* --------------------------------------------------------------- constants
CACHE_NAME == "delayed-mirror-v1.0.0"

FILES_TO_CACHE ==
    << "/", "/index.html", "/manifest.json",
       "/icons/icon-72.png", "/icons/icon-96.png", "/icons/icon-128.png",
       "/icons/icon-144.png", "/icons/icon-152.png", "/icons/icon-192.png",
       "/icons/icon-384.png", "/icons/icon-512.png" >>

\* the literal prefix the activate handler filters on
APP_PREFIX == "delayed-mirror-"

\* the protocol of the origin the worker is served from; relative URLs
\* ('/index.html', the entries of FILES_TO_CACHE) resolve against it
ORIGIN_PROTOCOL == "https:"

\* String.prototype.startsWith
StartsWith(s, prefix) ==
    /\ Len(s) >= Len(prefix)
    /\ SubSeq(s, 1, Len(prefix)) = prefix

\* new URL(path, self.location): an absolute URL of the worker's origin
ResolveURL(path) == [protocol |-> ORIGIN_PROTOCOL, path |-> path]

\* --------------------------------------------------------------- responses
\* the value a promise resolves to when there is no response
Undefined == [status |-> 0, type |-> "undefined", body |-> ""]

\* new Response('Offline', {status: 503, statusText: 'Service Unavailable'})
OfflineResponse == [status |-> 503, type |-> "default", body |-> "Offline"]

\* what the network can answer to fetch(request); "error" is a rejected fetch
NetworkResponses ==
    { [status |-> 200, type |-> "basic", body |-> "net"],
      [status |-> 404, type |-> "basic", body |-> "not found"],
      [status |-> 200, type |-> "cors",  body |-> "net"] }

\* the response cache.addAll stores for a file of the app shell
ShellResponse == [status |-> 200, type |-> "basic", body |-> "shell"]

\* ------------------------------------------------------------ CacheStorage
NoEntries == [u \in {} |-> Undefined]

CachesKeys(store) == [i \in DOMAIN store |-> store[i].name]

CacheNames(store) == { store[i].name : i \in DOMAIN store }

CachesHas(store, name) == name \in CacheNames(store)

\* caches.open(name): the cache is created, last in the order, if missing
CachesOpen(store, name) ==
    IF CachesHas(store, name)
    THEN store
    ELSE Append(store, [name |-> name, entries |-> NoEntries])

\* caches.delete(name)
CachesDelete(store, name) == SelectSeq(store, LAMBDA c : c.name # name)

\* the entries of the cache called name (none when there is no such cache)
EntriesOf(store, name) ==
    IF CachesHas(store, name)
    THEN (CHOOSE c \in { store[i] : i \in DOMAIN store } : c.name = name).entries
    ELSE NoEntries

\* cache.put(request, response) on one cache's entries
EntriesPut(entries, url, response) ==
    [u \in (DOMAIN entries) \cup {url} |->
        IF u = url THEN response ELSE entries[u]]

\* cache.put on the cache called name of the store
CachePut(store, name, url, response) ==
    [i \in DOMAIN store |->
        IF store[i].name = name
        THEN [store[i] EXCEPT !.entries = EntriesPut(@, url, response)]
        ELSE store[i]]

RECURSIVE CachePutAll(_, _, _, _)
\* the batch of puts cache.addAll makes once every fetch has succeeded
CachePutAll(store, name, paths, response) ==
    IF paths = << >>
    THEN store
    ELSE CachePutAll(CachePut(store, name, ResolveURL(Head(paths)), response),
                     name, Tail(paths), response)

\* caches.match(request): the first cache, in creation order, with an entry
CachesMatch(store, url) ==
    LET hits == { i \in DOMAIN store : url \in DOMAIN store[i].entries }
    IN  IF hits = {}
        THEN Undefined
        ELSE LET first == CHOOSE i \in hits : \A j \in hits : i <= j
             IN  store[first].entries[url]

\* ------------------------------------------------------- frame ring buffer
\* frames captured per second
TARGET_FPS == 15

\* the delay slider: least and initial delay in seconds
MinDelay == 10
InitialDelay == 30

\* what readDelayed() gives when there is no frame to show
NoFrame == -1

\* the number of slots of a buffer for this rate and delay
Capacity(rate, delay) == rate * delay

\* a newly allocated buffer: no slot filled, the write cursor on slot 1
AllocRing(rate, delay) ==
    [rate |-> rate,
     delay |-> delay,
     slots |-> [k \in 1..Capacity(rate, delay) |-> NoFrame],
     writeIdx |-> 1,
     filled |-> 0,
     pushes |-> 0,
     nextFrame |-> 0,
     shown |-> NoFrame]

\* push(frame): the frame goes to the slot under the write cursor, which
\* holds the oldest frame once the buffer is full, and the cursor moves on
RingPush(r, frame) ==
    [r EXCEPT !.slots[r.writeIdx] = frame,
              !.writeIdx = (r.writeIdx % Len(r.slots)) + 1,
              !.filled = IF @ < Len(r.slots) THEN @ + 1 ELSE @,
              !.pushes = @ + 1,
              !.nextFrame = @ + 1]

\* a read of the newest frame, the one behind the write cursor
ReadDelayed_Newest(r) ==
    IF r.filled < Len(r.slots)
    THEN NoFrame
    ELSE r.slots[((r.writeIdx + Len(r.slots) - 2) % Len(r.slots)) + 1]

\* readDelayed(): the oldest stored frame, which is the one under the
\* write cursor of a full buffer; nothing while the buffer is not full
ReadDelayed(r) ==
    IF r.filled < Len(r.slots) THEN NoFrame ELSE r.slots[r.writeIdx]

\* a change to a shorter delay that cuts the buffer and keeps its frames
RingSetDelay_KeepsFrames(r, delay) ==
    IF Capacity(r.rate, delay) <= Len(r.slots)
    THEN [r EXCEPT !.delay = delay,
                   !.slots = SubSeq(@, 1, Capacity(r.rate, delay)),
                   !.writeIdx = 1,
                   !.filled = IF @ < Capacity(r.rate, delay)
                              THEN @ ELSE Capacity(r.rate, delay),
                   !.pushes = 0,
                   !.shown = NoFrame]
    ELSE [AllocRing(r.rate, delay) EXCEPT !.nextFrame = r.nextFrame]

\* the delay setting changes: the buffer is allocated anew for the new
\* delay and its fill state is reset; frames go on being numbered
RingSetDelay(r, delay) ==
    [AllocRing(r.rate, delay) EXCEPT !.nextFrame = r.nextFrame]

\* ------------------------------------------------------------------- state
VARIABLES
    caches,          \* CacheStorage: sequence of [name, entries], creation order
    swState,         \* ServiceWorker.state of this worker
    skipWaitingFlag, \* the worker's skip-waiting flag, set by self.skipWaiting()
    oldClients,      \* pages are still controlled by a previous worker
    install,         \* the install handler's promise chain
    activate,        \* the activate handler's promise chain
    reqs,            \* the fetch events dispatched so far, in order
    msgCount,        \* the number of message events handled
    ring             \* the page's frame ring buffer

vars == << caches, swState, skipWaitingFlag, oldClients, install, activate,
           reqs, msgCount, ring >>

\* the state of the service worker
workerVars == << caches, swState, skipWaitingFlag, oldClients, install, activate,
                 reqs, msgCount >>

\* caches left behind by earlier versions of the app and by other code of
\* the origin, as the worker may find them
OldCache ==
    [name |-> "delayed-mirror-v0.9.0",
     entries |-> [u \in {ResolveURL("/index.html")} |->
                    [status |-> 200, type |-> "basic", body |-> "old"]]]

OlderCache == [name |-> "delayed-mirror-v0.8.0", entries |-> NoEntries]

ForeignCache ==
    [name |-> "fonts-delayed-mirror-v1",
     entries |-> [u \in {ResolveURL("/app.js")} |->
                    [status |-> 200, type |-> "basic", body |-> "foreign"]]]

InitialStores ==
    { << >>,
      << OldCache, ForeignCache, OlderCache >>,
      << ForeignCache, OldCache >> }

\* the requests pages make
Requests ==
    { [method |-> "GET",  url |-> ResolveURL("/index.html"), mode |-> "navigate"],
      [method |-> "GET",  url |-> ResolveURL("/about"),      mode |-> "navigate"],
      [method |-> "GET",  url |-> ResolveURL("/app.js"),     mode |-> "no-cors"],
      [method |-> "POST", url |-> ResolveURL("/app.js"),     mode |-> "cors"],
      [method |-> "GET",
       url |-> [protocol |-> "chrome-extension:", path |-> "/app.js"],
       mode |-> "no-cors"] }

\* the data of the messages pages post
Messages == { "skipWaiting", "clearCache", "ping" }

Init ==
    /\ caches \in InitialStores
    /\ swState = "parsed"
    /\ skipWaitingFlag = FALSE
    /\ oldClients \in BOOLEAN
    /\ install = [pc |-> "idle", cache |-> "none", failed |-> FALSE,
                  promise |-> "pending"]
    /\ activate = [pc |-> "idle", keys |-> << >>, deleting |-> {},
                   claimed |-> FALSE]
    /\ reqs = << >>
    /\ msgCount = 0
    /\ ring = AllocRing(TARGET_FPS, InitialDelay)

\* ----------------------------------------------------------------- install
\* the browser dispatches 'install' to the newly parsed worker
InstallEvent ==
    /\ swState = "parsed"
    /\ swState' = "installing"
    /\ install' = [install EXCEPT !.pc = "open"]
    /\ UNCHANGED << caches, skipWaitingFlag, oldClients, activate, reqs, msgCount >>
    /\ UNCHANGED ring

\* caches.open(CACHE_NAME) resolves
InstallOpen ==
    /\ install.pc = "open"
    /\ caches' = CachesOpen(caches, CACHE_NAME)
    /\ install' = [install EXCEPT !.pc = "addAll", !.cache = "live"]
    /\ UNCHANGED << swState, skipWaitingFlag, oldClients, activate, reqs, msgCount >>
    /\ UNCHANGED ring

\* an addAll that leaves out the first file of the list
InstallAddAll_SkipsFirst(failing) ==
    /\ install.pc = "addAll"
    /\ IF failing = {}
       THEN /\ caches' = IF install.cache = "live"
                         THEN CachePutAll(caches, CACHE_NAME, Tail(FILES_TO_CACHE),
                                          ShellResponse)
                         ELSE caches
            /\ install' = [install EXCEPT !.pc = "skipWaiting"]
       ELSE /\ caches' = caches
            /\ install' = [install EXCEPT !.pc = "catch", !.failed = TRUE]
    /\ UNCHANGED << swState, skipWaitingFlag, oldClients, activate, reqs, msgCount >>
    /\ UNCHANGED ring

\* a chain that goes on to skipWaiting() whether or not addAll succeeded
InstallAddAll_SkipsWaitingAnyway(failing) ==
    /\ install.pc = "addAll"
    /\ IF failing = {}
       THEN /\ caches' = IF install.cache = "live"
                         THEN CachePutAll(caches, CACHE_NAME, FILES_TO_CACHE,
                                          ShellResponse)
                         ELSE caches
            /\ install' = [install EXCEPT !.pc = "skipWaiting"]
       ELSE /\ caches' = caches
            /\ install' = [install EXCEPT !.pc = "skipWaiting", !.failed = TRUE]
    /\ UNCHANGED << swState, skipWaitingFlag, oldClients, activate, reqs, msgCount >>
    /\ UNCHANGED ring

\* cache.addAll(FILES_TO_CACHE) settles; failing is the set of files whose
\* fetch failed.  The puts go to the Cache object that was opened, which is
\* no longer in the store when the cache was deleted in between.
InstallAddAll(failing) ==
    /\ install.pc = "addAll"
    /\ IF failing = {}
       THEN /\ caches' = IF install.cache = "live"
                         THEN CachePutAll(caches, CACHE_NAME, FILES_TO_CACHE,
                                          ShellResponse)
                         ELSE caches
            /\ install' = [install EXCEPT !.pc = "skipWaiting"]
       ELSE /\ caches' = caches
            /\ install' = [install EXCEPT !.pc = "catch", !.failed = TRUE]
    /\ UNCHANGED << swState, skipWaitingFlag, oldClients, activate, reqs, msgCount >>
    /\ UNCHANGED ring

\* .then(() => self.skipWaiting())
InstallSkipWaiting ==
    /\ install.pc = "skipWaiting"
    /\ skipWaitingFlag' = TRUE
    /\ install' = [install EXCEPT !.pc = "settled", !.promise = "fulfilled"]
    /\ UNCHANGED << caches, swState, oldClients, activate, reqs, msgCount >>
    /\ UNCHANGED ring

\* what the promise given to event.waitUntil settles to after the rejection
\* handler ran: the handler logs and returns, so the chain is fulfilled
InstallCatchOutcome == "fulfilled"

\* .catch((error) => console.error(...))
InstallCatch ==
    /\ install.pc = "catch"
    /\ install' = [install EXCEPT !.pc = "settled", !.promise = InstallCatchOutcome]
    /\ UNCHANGED << caches, swState, skipWaitingFlag, oldClients, activate, reqs,
                    msgCount >>
    /\ UNCHANGED ring

\* the browser ends the install once the waitUntil promise has settled
InstallFinish ==
    /\ swState = "installing"
    /\ install.promise # "pending"
    /\ swState' = IF install.promise = "rejected" THEN "redundant" ELSE "installed"
    /\ UNCHANGED << caches, skipWaitingFlag, oldClients, install, activate, reqs,
                    msgCount >>
    /\ UNCHANGED ring

\* ---------------------------------------------------------------- activate
\* a waiting worker is activated when no page is controlled by a previous
\* worker or when its skip-waiting flag is set
CanActivate ==
    /\ swState = "installed"
    /\ (skipWaitingFlag \/ ~oldClients)

\* the pages controlled by the previous worker are closed
ClientsClose ==
    /\ oldClients
    /\ oldClients' = FALSE
    /\ UNCHANGED << caches, swState, skipWaitingFlag, install, activate, reqs,
                    msgCount >>
    /\ UNCHANGED ring

ActivateEvent ==
    /\ CanActivate
    /\ swState' = "activating"
    /\ activate' = [activate EXCEPT !.pc = "keys"]
    /\ UNCHANGED << caches, skipWaitingFlag, oldClients, install, reqs, msgCount >>
    /\ UNCHANGED ring

\* the filter without its second condition: every cache of the app, the
\* current one too
IsOldCache_NoVersionTest(cacheName) == StartsWith(cacheName, APP_PREFIX)

\* a filter that knows only the version before the current one
IsOldCache_PreviousOnly(cacheName) == cacheName = "delayed-mirror-v0.9.0"

\* the filter without its first condition: every cache but the current one
IsOldCache_NoPrefixTest(cacheName) == cacheName # CACHE_NAME

\* the filter of the activate handler
IsOldCache(cacheName) ==
    StartsWith(cacheName, APP_PREFIX) /\ cacheName # CACHE_NAME

\* caches.keys() resolves; the deletes of Promise.all are started
ActivateKeys ==
    /\ activate.pc = "keys"
    /\ activate' = [activate EXCEPT
                      !.pc = "deleting",
                      !.keys = CachesKeys(caches),
                      !.deleting = { n \in CacheNames(caches) : IsOldCache(n) }]
    /\ UNCHANGED << caches, swState, skipWaitingFlag, oldClients, install, reqs,
                    msgCount >>
    /\ UNCHANGED ring

\* one caches.delete(cacheName) of the Promise.all resolves
ActivateDelete(cacheName) ==
    /\ activate.pc = "deleting"
    /\ cacheName \in activate.deleting
    /\ caches' = CachesDelete(caches, cacheName)
    /\ activate' = [activate EXCEPT !.deleting = @ \ {cacheName}]
    /\ UNCHANGED << swState, skipWaitingFlag, oldClients, install, reqs, msgCount >>
    /\ UNCHANGED ring

\* a claim that does not wait for the deletes
ActivateClaim_NoWait ==
    /\ activate.pc = "deleting"
    /\ activate' = [activate EXCEPT !.pc = "settled", !.claimed = TRUE,
                                    !.keys = << >>]
    /\ UNCHANGED << caches, swState, skipWaitingFlag, oldClients, install, reqs,
                    msgCount >>
    /\ UNCHANGED ring

\* .then(() => self.clients.claim()), once every delete has resolved; the
\* handler's cacheNames goes out of scope
ActivateClaim ==
    /\ activate.pc = "deleting"
    /\ activate.deleting = {}
    /\ activate' = [activate EXCEPT !.pc = "settled", !.claimed = TRUE,
                                    !.keys = << >>]
    /\ UNCHANGED << caches, swState, skipWaitingFlag, oldClients, install, reqs,
                    msgCount >>
    /\ UNCHANGED ring

\* the browser ends the activation once the waitUntil promise has settled
ActivateFinish ==
    /\ swState = "activating"
    /\ activate.pc = "settled"
    /\ swState' = "activated"
    /\ oldClients' = FALSE
    /\ UNCHANGED << caches, skipWaitingFlag, install, activate, reqs, msgCount >>
    /\ UNCHANGED ring

\* ------------------------------------------------------------------- fetch
\* a handler without the protocol test
IsHandled_MethodOnly(request) == request.method = "GET"

\* the two early returns of the fetch handler: only GET requests whose URL
\* protocol starts with 'http' are given to event.respondWith
IsHandled(request) ==
    /\ request.method = "GET"
    /\ StartsWith(request.url.protocol, "http")

\* the condition without its test of the response type
IsCacheable_StatusOnly(networkResponse) ==
    ~ \/ networkResponse = Undefined
      \/ networkResponse.status # 200

\* the condition under which the network response is cloned and cached
IsCacheable(networkResponse) ==
    ~ \/ networkResponse = Undefined
      \/ networkResponse.status # 200
      \/ networkResponse.type # "basic"

\* the browser dispatches 'fetch' to the active worker; the handler returns
\* at once for a request it does not handle, else it calls respondWith with
\* the promise of caches.match(event.request)
FetchEvent(request) ==
    /\ swState = "activated"
    /\ Len(reqs) < MaxRequests
    /\ reqs' = Append(reqs,
                 [request |-> request,
                  pc |-> IF IsHandled(request) THEN "match" ELSE "passthrough",
                  respondWith |-> IsHandled(request),
                  matched |-> FALSE,
                  fetches |-> 0,
                  netFailed |-> FALSE,
                  source |-> "none",
                  response |-> Undefined,
                  put |-> "none"])
    /\ UNCHANGED << caches, swState, skipWaitingFlag, oldClients, install, activate,
                    msgCount >>
    /\ UNCHANGED ring

\* a handler that goes to the network whether or not the cache answered
FetchMatch_AlwaysNetwork(i) ==
    /\ reqs[i].pc = "match"
    /\ reqs' = [reqs EXCEPT ![i] = [@ EXCEPT !.matched = TRUE, !.pc = "fetch"]]
    /\ UNCHANGED << caches, swState, skipWaitingFlag, oldClients, install, activate,
                    msgCount >>
    /\ UNCHANGED ring

\* caches.match(event.request) resolves with cachedResponse
FetchMatch(i) ==
    /\ reqs[i].pc = "match"
    /\ LET cachedResponse == CachesMatch(caches, reqs[i].request.url)
       IN  reqs' = [reqs EXCEPT ![i] =
                IF cachedResponse # Undefined
                THEN [@ EXCEPT !.matched = TRUE, !.pc = "done",
                               !.source = "cache", !.response = cachedResponse]
                ELSE [@ EXCEPT !.matched = TRUE, !.pc = "fetch"]]
    /\ UNCHANGED << caches, swState, skipWaitingFlag, oldClients, install, activate,
                    msgCount >>
    /\ UNCHANGED ring

\* a handler that returns the network response and caches nothing
FetchNetwork_NoCaching(i, networkResponse) ==
    /\ reqs[i].pc = "fetch"
    /\ reqs' = [reqs EXCEPT ![i] =
                 [@ EXCEPT !.fetches = @ + 1, !.pc = "done",
                           !.source = "network", !.response = networkResponse]]
    /\ UNCHANGED << caches, swState, skipWaitingFlag, oldClients, install, activate,
                    msgCount >>
    /\ UNCHANGED ring

\* fetch(event.request) resolves with networkResponse: a cacheable response
\* is cloned and caches.open(CACHE_NAME) is called for it, without waiting,
\* and networkResponse is returned in either case
FetchNetwork(i, networkResponse) ==
    /\ reqs[i].pc = "fetch"
    /\ reqs' = [reqs EXCEPT ![i] =
                 [@ EXCEPT !.fetches = @ + 1, !.pc = "done",
                           !.source = "network", !.response = networkResponse,
                           !.put = IF IsCacheable(networkResponse)
                                   THEN "open" ELSE "none"]]
    /\ UNCHANGED << caches, swState, skipWaitingFlag, oldClients, install, activate,
                    msgCount >>
    /\ UNCHANGED ring

\* a rejection handler without the 503 branch
OnFetchFailed_AlwaysFallback(mode) == "fallback"

\* what the rejection handler of fetch() does next for a request of this mode
OnFetchFailed(mode) ==
    IF mode = "navigate" THEN "fallback" ELSE "offline"

\* fetch(event.request) rejects: .catch(...)
FetchFailed(i) ==
    /\ reqs[i].pc = "fetch"
    /\ reqs' = [reqs EXCEPT ![i] =
                 IF OnFetchFailed(reqs[i].request.mode) = "fallback"
                 THEN [@ EXCEPT !.fetches = @ + 1, !.netFailed = TRUE,
                                !.pc = "fallback"]
                 ELSE [@ EXCEPT !.fetches = @ + 1, !.netFailed = TRUE,
                                !.pc = "done", !.source = "offline",
                                !.response = OfflineResponse]]
    /\ UNCHANGED << caches, swState, skipWaitingFlag, oldClients, install, activate,
                    msgCount >>
    /\ UNCHANGED ring

\* caches.match('/index.html') of the rejection handler resolves
FetchFallback(i) ==
    /\ reqs[i].pc = "fallback"
    /\ reqs' = [reqs EXCEPT ![i] =
                 [@ EXCEPT !.pc = "done", !.source = "fallback",
                           !.response = CachesMatch(caches, ResolveURL("/index.html"))]]
    /\ UNCHANGED << caches, swState, skipWaitingFlag, oldClients, install, activate,
                    msgCount >>
    /\ UNCHANGED ring

\* a caching chain that opens a cache of its own
PutOpen_RuntimeCache(i) ==
    /\ reqs[i].put = "open"
    /\ caches' = CachesOpen(caches, "delayed-mirror-runtime")
    /\ reqs' = [reqs EXCEPT ![i].put = "write"]
    /\ UNCHANGED << swState, skipWaitingFlag, oldClients, install, activate, msgCount >>
    /\ UNCHANGED ring

\* caches.open(CACHE_NAME) of the detached caching chain resolves
PutOpen(i) ==
    /\ reqs[i].put = "open"
    /\ caches' = CachesOpen(caches, CACHE_NAME)
    /\ reqs' = [reqs EXCEPT ![i].put = "write"]
    /\ UNCHANGED << swState, skipWaitingFlag, oldClients, install, activate, msgCount >>
    /\ UNCHANGED ring

\* a caching chain that ends without having stored the response
PutWrite_NotStored(i) ==
    /\ reqs[i].put \in {"write", "orphan"}
    /\ caches' = caches
    /\ reqs' = [reqs EXCEPT ![i].put = IF @ = "write" THEN "written" ELSE "lost"]
    /\ UNCHANGED << swState, skipWaitingFlag, oldClients, install, activate, msgCount >>
    /\ UNCHANGED ring

\* cache.put(event.request, responseToCache) completes, on the Cache object
\* that was opened: "orphan" when that cache was deleted from the store since
PutWrite(i) ==
    /\ reqs[i].put \in {"write", "orphan"}
    /\ IF reqs[i].put = "write"
       THEN /\ caches' = CachePut(caches, CACHE_NAME, reqs[i].request.url,
                                  reqs[i].response)
            /\ reqs' = [reqs EXCEPT ![i].put = "written"]
       ELSE /\ caches' = caches
            /\ reqs' = [reqs EXCEPT ![i].put = "lost"]
    /\ UNCHANGED << swState, skipWaitingFlag, oldClients, install, activate, msgCount >>
    /\ UNCHANGED ring

\* ----------------------------------------------------------------- message
\* a 'clearCache' that deletes every cache of the origin
MessageCaches_ClearsAll(data, store) ==
    IF data = "clearCache" THEN << >> ELSE store

\* the cache store after the message handler ran on event.data
MessageCaches(data, store) ==
    IF data = "clearCache" THEN CachesDelete(store, CACHE_NAME) ELSE store

\* the skip-waiting flag after the message handler ran on event.data
MessageSkipWaiting(data, flag) ==
    IF data = "skipWaiting" THEN TRUE ELSE flag

\* a Cache object held by a promise chain, after the handler ran on event.data
Orphaned(data, handle, live, orphan) ==
    IF data = "clearCache" /\ handle = live THEN orphan ELSE handle

\* a page posts a message to the worker
MessageEvent(data) ==
    /\ swState \in {"installing", "installed", "activating", "activated"}
    /\ msgCount < MaxMessages
    /\ msgCount' = msgCount + 1
    /\ skipWaitingFlag' = MessageSkipWaiting(data, skipWaitingFlag)
    /\ caches' = MessageCaches(data, caches)
    /\ install' = [install EXCEPT !.cache = Orphaned(data, @, "live", "orphan")]
    /\ reqs' = [i \in DOMAIN reqs |->
                 [reqs[i] EXCEPT !.put = Orphaned(data, @, "write", "orphan")]]
    /\ UNCHANGED << swState, oldClients, activate >>
    /\ UNCHANGED ring

\* ----------------------------------------------------------- specification
Next ==
    \/ InstallEvent
    \/ InstallOpen
    \/ \E failing \in {{}} \cup { {ResolveURL(FILES_TO_CACHE[k])} :
                                   k \in DOMAIN FILES_TO_CACHE } :
          InstallAddAll(failing)
    \/ InstallSkipWaiting
    \/ InstallCatch
    \/ InstallFinish
    \/ ClientsClose
    \/ ActivateEvent
    \/ ActivateKeys
    \/ \E cacheName \in activate.deleting : ActivateDelete(cacheName)
    \/ ActivateClaim
    \/ ActivateFinish
    \/ \E request \in Requests : FetchEvent(request)
    \/ \E i \in DOMAIN reqs : FetchMatch(i)
    \/ \E i \in DOMAIN reqs, networkResponse \in NetworkResponses :
          FetchNetwork(i, networkResponse)
    \/ \E i \in DOMAIN reqs : FetchFailed(i)
    \/ \E i \in DOMAIN reqs : FetchFallback(i)
    \/ \E i \in DOMAIN reqs : PutOpen(i)
    \/ \E i \in DOMAIN reqs : PutWrite(i)
    \/ \E data \in Messages : MessageEvent(data)

Spec == Init /\ [][Next]_vars

\* ------------------------------------------- frame ring buffer, specification
\* the frame rates and the delay settings the buffer is run with
Rates == { 1, 2, TARGET_FPS }

Delays == { MinDelay, MinDelay + 1 }

\* the number of frames captured
MaxFrames == 152

RingInit ==
    /\ caches = << >>
    /\ swState = "parsed"
    /\ skipWaitingFlag = FALSE
    /\ oldClients = FALSE
    /\ install = [pc |-> "idle", cache |-> "none", failed |-> FALSE,
                  promise |-> "pending"]
    /\ activate = [pc |-> "idle", keys |-> << >>, deleting |-> {},
                   claimed |-> FALSE]
    /\ reqs = << >>
    /\ msgCount = 0
    /\ \E rate \in Rates, delay \in Delays : ring = AllocRing(rate, delay)

\* the sampling tick: the captured frame is pushed, then the delayed frame
\* is read for display
RingTick ==
    /\ ring.nextFrame < MaxFrames
    /\ ring' = LET pushed == RingPush(ring, ring.nextFrame)
               IN  [pushed EXCEPT !.shown = ReadDelayed(pushed)]
    /\ UNCHANGED workerVars

\* the user moves the delay slider
RingDelayChange(delay) ==
    /\ delay # ring.delay
    /\ ring' = RingSetDelay(ring, delay)
    /\ UNCHANGED workerVars

RingNext ==
    \/ RingTick
    \/ \E delay \in Delays : RingDelayChange(delay)

SpecRing == RingInit /\ [][RingNext]_vars

\* ================================================================== claims

\* C1: when the activate handler completes (its last callback, the one that
\* calls clients.claim(), runs), every cache name that caches.keys() listed,
\* that starts with 'delayed-mirror-' and differs from CACHE_NAME is gone
\* from the store; and no step of the activate handler deletes the cache
\* named CACHE_NAME or changes its entries.
C1_ActivateDeletesOldCaches ==
    [][ /\ (activate.pc = "deleting" /\ activate'.pc = "settled") =>
              \A k \in DOMAIN activate.keys :
                 ( /\ StartsWith(activate.keys[k], "delayed-mirror-")
                   /\ activate.keys[k] # CACHE_NAME )
                 => ~ CachesHas(caches', activate.keys[k])
        /\ (activate' # activate) =>
              /\ CachesHas(caches', CACHE_NAME) = CachesHas(caches, CACHE_NAME)
              /\ EntriesOf(caches', CACHE_NAME) = EntriesOf(caches, CACHE_NAME)
      ]_vars

\* C1 witness: every delete of an activation that found two old caches and
\* the populated current cache has resolved
C1_Witness ==
    /\ activate.pc = "deleting"
    /\ activate.deleting = {}
    /\ Cardinality({ k \in DOMAIN activate.keys :
                        /\ StartsWith(activate.keys[k], "delayed-mirror-")
                        /\ activate.keys[k] # CACHE_NAME }) = 2
    /\ CacheNames(caches) = { CACHE_NAME, "fonts-delayed-mirror-v1" }
    /\ ResolveURL("/index.html") \in DOMAIN EntriesOf(caches, CACHE_NAME)

\* C2: when the cache lookup of a handled GET request finds an entry, the
\* request is answered at that step with the entry found, and no network
\* fetch was or is made for it.
C2_CacheHitServedWithoutNetwork ==
    [][ \A i \in DOMAIN reqs :
          ( /\ reqs[i].pc = "match"
            /\ reqs'[i].pc # "match"
            /\ CachesMatch(caches, reqs[i].request.url) # Undefined )
          => /\ reqs'[i].pc = "done"
             /\ reqs'[i].response = CachesMatch(caches, reqs[i].request.url)
             /\ reqs'[i].fetches = 0
             /\ reqs'[i].put = "none"
      ]_vars

\* C2 witness: a request served the app shell's document from the cache
C2_Witness ==
    \E i \in DOMAIN reqs :
        /\ reqs[i].request.method = "GET"
        /\ reqs[i].pc = "done"
        /\ reqs[i].source = "cache"
        /\ reqs[i].response = ShellResponse
        /\ reqs[i].fetches = 0

\* C3 as claimed: once a handled GET request that missed the cache has been
\* answered with a network response of status 200 and type 'basic', a lookup
\* of the same request (the one a subsequent identical request makes) finds
\* that response in the cache.
C3_CachedForNextRequest ==
    \A i \in DOMAIN reqs :
        ( /\ reqs[i].pc = "done"
          /\ reqs[i].source = "network"
          /\ reqs[i].response.status = 200
          /\ reqs[i].response.type = "basic" )
        => CachesMatch(caches, reqs[i].request.url) = reqs[i].response

\* C3 amended: the lookup finds the response from the step on at which the
\* detached cache.put of the first request completes on the cache of the
\* store; it keeps finding it until a 'clearCache' message deletes the cache
\* or the put of another identical request replaces the entry; and a
\* request whose lookup runs meanwhile is served that response from the
\* cache, without a network fetch.
C3_CachedOncePutCompletes ==
    [][ \A i \in DOMAIN reqs :
          LET url == reqs[i].request.url
              stored == /\ reqs[i].put = "written"
                        /\ CachesMatch(caches, url) = reqs[i].response
          IN  /\ (reqs[i].put = "write" /\ reqs'[i].put = "written")
                    => CachesMatch(caches', url) = reqs[i].response
              /\ (stored /\ CachesMatch(caches', url) # reqs[i].response)
                    => \/ /\ msgCount' = msgCount + 1
                          /\ ~ CachesHas(caches', CACHE_NAME)
                       \/ \E j \in DOMAIN reqs :
                             /\ j # i
                             /\ reqs[j].request.url = url
                             /\ reqs[j].put = "write"
                             /\ reqs'[j].put = "written"
              /\ stored =>
                    \A j \in DOMAIN reqs :
                       ( /\ reqs[j].request = reqs[i].request
                         /\ reqs[j].pc = "match"
                         /\ reqs'[j].pc # "match" )
                       => /\ reqs'[j].source = "cache"
                          /\ reqs'[j].response = reqs[i].response
                          /\ reqs'[j].fetches = 0
      ]_vars

\* C3 witness: a request was answered from the network, its put completed,
\* and a second, identical request was served that response from the cache
C3_Witness ==
    \E i, j \in DOMAIN reqs :
        /\ i < j
        /\ reqs[j].request = reqs[i].request
        /\ reqs[i].source = "network"
        /\ reqs[i].put = "written"
        /\ reqs[j].pc = "done"
        /\ reqs[j].source = "cache"
        /\ reqs[j].response = reqs[i].response

\* C4 as claimed: when a request that missed the cache has been answered
\* with a network response of status 200 and type 'basic', the cache write
\* for it has completed.
C4_PutCompleteWhenAnswered ==
    \A i \in DOMAIN reqs :
        ( /\ reqs[i].pc = "done"
          /\ reqs[i].source = "network"
          /\ reqs[i].response.status = 200
          /\ reqs[i].response.type = "basic" )
        => reqs[i].put \in {"written", "lost"}

\* C4 amended: at the step that answers such a request the response has
\* been cloned and the cache write started (caches.open called) but not
\* waited for: the store is unchanged at that step, and every step of the
\* write (the open, the put) runs after the request was answered.
C4_PutStartedWhenAnswered ==
    [][ \A i \in DOMAIN reqs :
          /\ ( /\ reqs[i].pc = "fetch"
               /\ reqs'[i].source = "network"
               /\ reqs'[i].response.status = 200
               /\ reqs'[i].response.type = "basic" )
             => /\ reqs'[i].pc = "done"
                /\ reqs'[i].put = "open"
                /\ caches' = caches
          /\ (reqs'[i].put # reqs[i].put /\ reqs[i].put # "none")
             => reqs[i].pc = "done"
      ]_vars

\* C4 witness: a request answered with a cacheable network response while
\* its cache write has not yet opened the cache
C4_Witness ==
    \E i \in DOMAIN reqs :
        /\ reqs[i].pc = "done"
        /\ reqs[i].source = "network"
        /\ IsCacheable(reqs[i].response)
        /\ reqs[i].put = "open"
        /\ CachesMatch(caches, reqs[i].request.url) = Undefined

\* C5: when the fetch of a file of FILES_TO_CACHE failed during install,
\* the promise given to event.waitUntil is not fulfilled and the worker
\* never becomes installed (nor, later, active).
C5_InstallAllOrNothing ==
    install.failed =>
        /\ install.promise # "fulfilled"
        /\ swState \notin {"installed", "activating", "activated"}

\* C6: a navigation request that missed the cache and whose network fetch
\* failed is answered with a cached document, never with no response.
C6_NavigationFallback ==
    \A i \in DOMAIN reqs :
        ( /\ reqs[i].request.mode = "navigate"
          /\ reqs[i].netFailed
          /\ reqs[i].pc = "done" )
        => /\ reqs[i].source = "fallback"
           /\ reqs[i].response # Undefined

C8_PassThrough ==
    \A i \in DOMAIN reqs :
        ( \/ reqs[i].request.method # "GET"
          \/ ~ StartsWith(reqs[i].request.url.protocol, "http") )
        => /\ ~ reqs[i].respondWith
           /\ ~ reqs[i].matched
           /\ reqs[i].fetches = 0
           /\ reqs[i].put = "none"
           /\ reqs[i].response = Undefined

\* C8 witness: a POST and a chrome-extension: request were both dispatched
C8_Witness ==
    \E i, j \in DOMAIN reqs :
        /\ reqs[i].request.method = "POST"
        /\ reqs[j].request.method = "GET"
        /\ reqs[j].request.url.protocol = "chrome-extension:"
        /\ reqs[i].pc = "passthrough"
        /\ reqs[j].pc = "passthrough"

\* every file of FILES_TO_CACHE has an entry in the cache named CACHE_NAME
ShellCached ==
    \A k \in DOMAIN FILES_TO_CACHE :
        ResolveURL(FILES_TO_CACHE[k]) \in DOMAIN EntriesOf(caches, CACHE_NAME)

C10_ControlMessages ==
    [][ \A data \in Messages :
          MessageEvent(data) =>
            /\ swState' = swState
            /\ activate' = activate
            /\ data = "skipWaiting" =>
                  /\ skipWaitingFlag'
                  /\ caches' = caches
                  /\ (swState = "installed" => CanActivate')
            /\ data = "clearCache" =>
                  /\ skipWaitingFlag' = skipWaitingFlag
                  /\ CacheNames(caches') = CacheNames(caches) \ {CACHE_NAME}
                  /\ \A n \in CacheNames(caches') :
                        EntriesOf(caches', n) = EntriesOf(caches, n)
            /\ data \notin {"skipWaiting", "clearCache"} =>
                  /\ skipWaitingFlag' = skipWaitingFlag
                  /\ caches' = caches
                  /\ install' = install
                  /\ reqs' = reqs
      ]_vars

\* C10 witness: a 'clearCache' message removed the populated current cache
\* of a waiting worker and left the other cache of the origin
C10_Witness ==
    /\ msgCount = 1
    /\ swState = "installed"
    /\ ~ install.failed
    /\ install.cache = "orphan"
    /\ ~ CachesHas(caches, CACHE_NAME)
    /\ CacheNames(caches) = { "delayed-mirror-v0.9.0", "fonts-delayed-mirror-v1",
                              "delayed-mirror-v0.8.0" }

\* C11: once the worker is activated, whatever fetch events and messages
\* follow, the store holds at most one cache whose name starts with
\* 'delayed-mirror-', and that one is the cache named CACHE_NAME.
C11_OnlyCurrentCacheAfterActivation ==
    swState = "activated" =>
        /\ \A n \in CacheNames(caches) :
              StartsWith(n, "delayed-mirror-") => n = CACHE_NAME
        /\ Cardinality({ k \in DOMAIN caches :
                            StartsWith(caches[k].name, "delayed-mirror-") }) <= 1

\* C11 witness: the worker found two old caches, was activated, its cache
\* was cleared by a message and created again by the cache write of a fetch
C11_Witness ==
    /\ swState = "activated"
    /\ msgCount = 1
    /\ install.cache = "orphan"
    /\ CacheNames(caches) = { "fonts-delayed-mirror-v1", CACHE_NAME }
    /\ \E i \in DOMAIN reqs : reqs[i].put = "written"

\* C14: a cache write of the fetch handler is started, and completes, only
\* for a request whose network fetch was answered with status 200 and type
\* 'basic', and it stores that response under the request; a network
\* response of another status or type answers the request as it came and no
\* cache write is ever started for it.
C14_OnlyBasic200Cached ==
    [][ \A i \in DOMAIN reqs' :
          /\ reqs'[i].put # "none" =>
                /\ reqs'[i].pc = "done"
                /\ reqs'[i].source = "network"
                /\ reqs'[i].fetches = 1
                /\ reqs'[i].response.status = 200
                /\ reqs'[i].response.type = "basic"
          /\ ( /\ i \in DOMAIN reqs
               /\ reqs[i].put = "write"
               /\ reqs'[i].put = "written" ) =>
                /\ reqs[i].source = "network"
                /\ reqs[i].request.url \in DOMAIN EntriesOf(caches', CACHE_NAME)
                /\ EntriesOf(caches', CACHE_NAME)[reqs[i].request.url]
                      = reqs[i].response
          /\ ( /\ i \in DOMAIN reqs
               /\ reqs[i].pc = "fetch"
               /\ reqs'[i].source = "network"
               /\ ~ ( /\ reqs'[i].response.status = 200
                      /\ reqs'[i].response.type = "basic" ) ) =>
                /\ reqs'[i].pc = "done"
                /\ reqs'[i].response \in NetworkResponses
                /\ reqs'[i].put = "none"
                /\ caches' = caches
          /\ ( /\ i \in DOMAIN reqs
               /\ reqs[i].source = "network"
               /\ reqs[i].put = "none" ) => reqs'[i].put = "none"
      ]_vars

\* C14 witness: one request was answered with a cross-origin response that
\* was not cached, another with a same-origin 200 that was
C14_Witness ==
    \E i, j \in DOMAIN reqs :
        /\ reqs[i].source = "network"
        /\ reqs[i].response.status = 200
        /\ reqs[i].response.type = "cors"
        /\ reqs[i].put = "none"
        /\ reqs[j].source = "network"
        /\ reqs[j].put = "written"
        /\ CachesMatch(caches, reqs[j].request.url) = reqs[j].response

\* C15: no step of the activate handler deletes or changes a cache whose
\* name does not start with 'delayed-mirror-'.
C15_ActivateKeepsForeignCaches ==
    [][ (activate' # activate) =>
          \A n \in CacheNames(caches) :
             ~ StartsWith(n, "delayed-mirror-") =>
                /\ CachesHas(caches', n)
                /\ EntriesOf(caches', n) = EntriesOf(caches, n)
      ]_vars

\* C15 witness: the activate handler has deleted the old caches and claimed
\* the pages, and the cache of other code of the origin is as it was
C15_Witness ==
    /\ activate.claimed
    /\ swState = "activating"
    /\ ~ CachesHas(caches, "delayed-mirror-v0.9.0")
    /\ CachesHas(caches, "fonts-delayed-mirror-v1")
    /\ EntriesOf(caches, "fonts-delayed-mirror-v1") = ForeignCache.entries

\* C16: the install handler calls skipWaiting() only at a step that follows
\* a successful addAll, when every file of the list is stored in the cache
\* it opened; after a failed asset fetch the handler never calls it (the
\* flag is then set by a 'skipWaiting' message or not at all).
C16_SkipWaitingAfterAddAll ==
    [][ /\ (install.pc = "skipWaiting" \/ install'.pc = "skipWaiting") =>
              /\ ~ install'.failed
              /\ (install'.cache = "live" => ShellCached')
        /\ (skipWaitingFlag' # skipWaitingFlag /\ msgCount' = msgCount) =>
              /\ install.pc = "skipWaiting"
              /\ ~ install.failed
        /\ install.failed =>
              /\ install'.failed
              /\ install'.pc \in {"catch", "settled"}
      ]_vars

\* C16 witness: the install handler, not a message, has set the flag after
\* the files were stored
C16_Witness ==
    /\ skipWaitingFlag
    /\ msgCount = 0
    /\ install.pc = "settled"
    /\ ~ install.failed
    /\ ShellCached

\* C17: clients.claim() is called at a step at which no delete of the
\* activate handler is outstanding, and while the pages are claimed the
\* store holds no cache with the app prefix other than CACHE_NAME.
C17_ClaimAfterDeletes ==
    activate.claimed =>
        /\ activate.deleting = {}
        /\ \A n \in CacheNames(caches) :
              StartsWith(n, "delayed-mirror-") => n = CACHE_NAME

\* C17 witness: the pages were claimed by a worker that had old caches to
\* delete and is not yet marked activated
C17_Witness ==
    /\ activate.claimed
    /\ swState = "activating"
    /\ CacheNames(caches) = { "fonts-delayed-mirror-v1", CACHE_NAME }

\* C18: the promise given to respondWith resolves to a response, never to
\* undefined, for every handled request.
C18_AlwaysAResponse ==
    \A i \in DOMAIN reqs :
        (reqs[i].respondWith /\ reqs[i].pc = "done")
        => reqs[i].response # Undefined

\* C19: a step of the fetch handler creates, changes or deletes no cache but
\* the one named CACHE_NAME, and a request is fetched from the network at
\* most once.
C19_FetchTouchesOnlyCurrentCache ==
    [][ /\ (reqs' # reqs /\ msgCount' = msgCount) =>
              /\ CacheNames(caches') \ {CACHE_NAME}
                    = CacheNames(caches) \ {CACHE_NAME}
              /\ \A n \in CacheNames(caches) \ {CACHE_NAME} :
                    EntriesOf(caches', n) = EntriesOf(caches, n)
        /\ \A i \in DOMAIN reqs' :
              /\ reqs'[i].fetches <= 1
              /\ (i \in DOMAIN reqs /\ reqs[i].pc = "done") =>
                    reqs'[i].fetches = reqs[i].fetches
      ]_vars

\* C19 witness: a fetched response was written to the current cache beside
\* the cache of other code of the origin
C19_Witness ==
    /\ CachesHas(caches, "fonts-delayed-mirror-v1")
    /\ EntriesOf(caches, "fonts-delayed-mirror-v1") = ForeignCache.entries
    /\ \E i \in DOMAIN reqs :
          /\ reqs[i].fetches = 1
          /\ reqs[i].put = "written"
          /\ reqs[i].request.url \in DOMAIN EntriesOf(caches, CACHE_NAME)

\* C12: the buffer has rate * delay slots, and once that many frames or
\* more were pushed since the delay last changed, readDelayed() gives the
\* frame pushed that many samples ago, which is the oldest frame stored; the
\* tick shows it.  At 15 frames per second and 10 seconds of delay the
\* buffer has 150 slots and after 151 pushes the frame numbered 1 is read.
C12_ReadsOldestFrame ==
    /\ Len(ring.slots) = ring.rate * ring.delay
    /\ ring.pushes >= ring.rate * ring.delay =>
          /\ ReadDelayed(ring) = ring.nextFrame - ring.rate * ring.delay
          /\ ring.shown = ring.nextFrame - ring.rate * ring.delay
          /\ \A k \in DOMAIN ring.slots : ring.slots[k] >= ReadDelayed(ring)
    /\ ( /\ ring.rate = 15
         /\ ring.delay = 10
         /\ ring.pushes = 151
         /\ ring.nextFrame = 151 ) =>
          /\ Len(ring.slots) = 150
          /\ ReadDelayed(ring) = 1

\* C12 witness: 151 frames, numbered from 0, were pushed at 15 frames per
\* second and 10 seconds of delay, and frame 1 is shown
C12_Witness ==
    /\ ring.rate = 15
    /\ ring.delay = 10
    /\ ring.pushes = 151
    /\ ring.nextFrame = 151
    /\ ring.shown = 1

\* C13: while fewer frames than rate * delay were pushed since the buffer
\* was last allocated, readDelayed() gives nothing, and nothing is shown.
C13_NothingWhileFilling ==
    ring.pushes < ring.rate * ring.delay =>
        /\ ReadDelayed(ring) = NoFrame
        /\ ring.shown = NoFrame

\* C13 witness: frames were pushed, the delay was changed, and the new
\* buffer has been given some frames but is not full
C13_Witness ==
    /\ ring.pushes > 0
    /\ ring.pushes < ring.rate * ring.delay
    /\ ring.nextFrame > ring.pushes + ring.rate * ring.delay
    /\ ReadDelayed(ring) = NoFrame

====
